---- MODULE Spec2Model ----
(***************************************************************************)
(* Clickfit storefront: the session cart, its reconciliation against the   *)
(* catalog, the checkout that turns a cart into an Order and decrements    *)
(* stock, and the staff edits of products and orders.                      *)
(*                                                                         *)
(* Money is counted in hundredths.  A request is served by a worker: it    *)
(* loads the session when the view first touches it, works on that copy,   *)
(* and the session middleware writes the copy back with the response when  *)
(* the view marked it modified.  Every database statement of checkout      *)
(* (order insert, product read, product write) is a step of its own, as    *)
(* the views run in autocommit with no transaction and no row lock.        *)
(***************************************************************************)
EXTENDS Integers, Sequences, FiniteSets, TLC

\* ----------------------------------------------------------------- bounds
NumProducts == 2
NumSessions == 2
NumWorkers == 2
MaxStock == 2
MaxQty == 2
MaxOps == 2
MaxStaffOps == 3
MaxReviews == 3

Products == 1 .. NumProducts
Sessions == 1 .. NumSessions
Workers == 1 .. NumWorkers
UnknownId == NumProducts + 1
Names == {"Tee", "Hat"}
Prices == {150, 275}
QtyInputs == -1 .. MaxQty

\* products: the Product table; orders: the Order table, in id order;
\* session: the session store; req: the request each worker is serving;
\* nops: the client requests and staff operations so far; restocked: the
\* products whose stock staff have set (history, read by no operation)
VARIABLES products, orders, session, req, nops, restocked

\* reviews: the ProductReview table, in id order; ratings: the rating (in
\* tenths) and review_count columns of the Product rows; last: the staff
\* operation on reviews last run (history, read by no operation)
VARIABLES reviews, ratings, last

vars ==
    <<products, orders, session, req, nops, restocked, reviews, ratings, last>>

\* ------------------------------------------------------------ conversions
\* str(product.price): the decimal text "d.cc", kept as its two digit groups
PriceStr(c) == <<c \div 100, c % 100>>

\* float(item['price']): the number the text denotes, in hundredths
FloatOf(s) == s[1] * 100 + s[2]

\* sum(item['quantity'] for item in cart)
RECURSIVE SumQty(_)
SumQty(cart) ==
    IF cart = <<>> THEN 0 ELSE Head(cart).quantity + SumQty(Tail(cart))

\* total += float(item['price']) * item['quantity'], over the cart
RECURSIVE CartTotal(_)
CartTotal(cart) ==
    IF cart = <<>> THEN 0
    ELSE FloatOf(Head(cart).price) * Head(cart).quantity + CartTotal(Tail(cart))

\* json.dumps(validated_cart): a text that holds copies of the lines' values
Dumps(cart) ==
    [i \in 1 .. Len(cart) |->
        <<cart[i].id, cart[i].name, cart[i].price, cart[i].quantity>>]

\* Order.get_items: json.loads of the stored text
GetItems(text) ==
    [i \in 1 .. Len(text) |->
        [id |-> text[i][1], name |-> text[i][2],
         price |-> text[i][3], quantity |-> text[i][4]]]

\* Product.objects.get(id=..., is_active=True) finds a row
Available(id) == id \in Products /\ products[id].is_active

\* ---------------------------------------------------------------- requests
Entry(id, quantity) == [id |-> id, quantity |-> quantity]

EmptySession == [cart |-> <<>>, cart_count |-> 0]

NoProduct == [name |-> "", price |-> 0, stock |-> 0, is_active |-> FALSE]

Idle ==
    [pc |-> "idle", op |-> "none", s |-> 0, data |-> <<>>,
     sess |-> EmptySession, modified |-> FALSE, validated |-> <<>>, total |-> 0, order |-> 0,
     i |-> 0, product |-> NoProduct, outcome |-> "none", notices |-> <<>>,
     admin_mail |-> "none", customer_mail |-> "none"]

\* requests are taken by the first worker that is free
Free(w) ==
    /\ req[w].pc = "idle"
    /\ \A v \in Workers : v < w => req[v].pc # "idle"

\* a worker picks up a new request of session s; data is what the request
\* body carries, as a list of [id, quantity] entries
Accept(w, s, op, data) ==
    [Idle EXCEPT !.op = op, !.s = s, !.data = data, !.sess = session[s]]

\* the view returns with this outcome; the response is still to go out
Done(r, outcome) == [r EXCEPT !.pc = "respond", !.outcome = outcome]

\* worker w goes on as r
Settle(w, r) == req' = [req EXCEPT ![w] = r]

\* the catalog the shop opens with: product 1 is down to its last unit
InitialStock(p) == IF p = 1 THEN 1 ELSE MaxStock

\* the line add_to_cart appends for product p of the opening catalog
InitialLine(p, quantity) ==
    [id |-> p, name |-> "Tee", price |-> PriceStr(150), quantity |-> quantity]

\* carts the visitors have filled through add_to_cart before the run starts
InitialCarts ==
    {<<>>,
     <<InitialLine(1, 1)>>,
     <<InitialLine(NumProducts, MaxStock)>>,
     <<InitialLine(1, 1), InitialLine(NumProducts, 1)>>}

SessionOf(cart) == [cart |-> cart, cart_count |-> SumQty(cart)]

\* Product.rating and Product.review_count as a new row has them
NoRating == [rating |-> 0, review_count |-> 0]

NoStaffOp == [op |-> "none", review |-> 0, at |-> 0]

Init ==
    /\ products = [p \in Products |->
                     [name |-> "Tee", price |-> 150,
                      stock |-> InitialStock(p), is_active |-> TRUE]]
    /\ orders = <<>>
    /\ session \in [Sessions -> {SessionOf(cart) : cart \in InitialCarts}]
    /\ req = [w \in Workers |-> Idle]
    /\ nops = 0
    /\ restocked = {}
    /\ reviews = <<>>
    /\ ratings = [p \in Products |-> NoRating]
    /\ last = NoStaffOp

\* ---------------------------------------------------------------- cart view
\* the loop of cart() without the cut to the stock left: a line over stock is
\* kept as it is
RECURSIVE CartLoopNoClamp(_, _)
CartLoopNoClamp(items, acc) ==
    IF items = <<>> THEN acc
    ELSE LET item == Head(items) IN
         IF ~Available(item.id)
         THEN CartLoopNoClamp(Tail(items),
                  [acc EXCEPT !.notices = Append(@, <<"removed", item.name>>)])
         ELSE LET product == products[item.id]
                  line == [item EXCEPT !.price = PriceStr(product.price)]
              IN CartLoopNoClamp(Tail(items),
                     [cart |-> Append(acc.cart, line),
                      notices |-> acc.notices])

\* the loop of cart() that warns of a product no longer there but keeps its
\* line
RECURSIVE CartLoopKeepsGone(_, _)
CartLoopKeepsGone(items, acc) ==
    IF items = <<>> THEN acc
    ELSE LET item == Head(items) IN
         IF ~Available(item.id)
         THEN CartLoopKeepsGone(Tail(items),
                  [cart |-> Append(acc.cart, item),
                   notices |-> Append(acc.notices, <<"removed", item.name>>)])
         ELSE LET product == products[item.id]
                  over == item.quantity > product.stock
                  line == [item EXCEPT
                              !.quantity = IF over THEN product.stock ELSE @,
                              !.price = PriceStr(product.price)]
              IN CartLoopKeepsGone(Tail(items),
                     [cart |-> Append(acc.cart, line),
                      notices |-> IF over
                                  THEN Append(acc.notices,
                                              <<"adjusted", product.name>>)
                                  ELSE acc.notices])

\* the loop of cart() that cuts a line down to the stock without a warning
RECURSIVE CartLoopSilent(_, _)
CartLoopSilent(items, acc) ==
    IF items = <<>> THEN acc
    ELSE LET item == Head(items) IN
         IF ~Available(item.id)
         THEN CartLoopSilent(Tail(items),
                  [acc EXCEPT !.notices = Append(@, <<"removed", item.name>>)])
         ELSE LET product == products[item.id]
                  over == item.quantity > product.stock
                  line == [item EXCEPT
                              !.quantity = IF over THEN product.stock ELSE @,
                              !.price = PriceStr(product.price)]
              IN CartLoopSilent(Tail(items),
                     [cart |-> Append(acc.cart, line),
                      notices |-> acc.notices])

\* the loop of cart(): acc is [cart, notices]
RECURSIVE CartLoop(_, _)
CartLoop(items, acc) ==
    IF items = <<>> THEN acc
    ELSE LET item == Head(items) IN
         IF ~Available(item.id)
         THEN CartLoop(Tail(items),
                  [acc EXCEPT !.notices = Append(@, <<"removed", item.name>>)])
         ELSE LET product == products[item.id]
                  over == item.quantity > product.stock
                  line == [item EXCEPT
                              !.quantity = IF over THEN product.stock ELSE @,
                              !.price = PriceStr(product.price)]
              IN CartLoop(Tail(items),
                     [cart |-> Append(acc.cart, line),
                      notices |-> IF over
                                  THEN Append(acc.notices,
                                              <<"adjusted", product.name>>)
                                  ELSE acc.notices])

CartView(w, s) ==
    /\ Free(w)
    /\ nops < MaxOps
    /\ LET r == Accept(w, s, "cart", <<>>)
           res == CartLoop(r.sess.cart, [cart |-> <<>>, notices |-> <<>>])
       IN Settle(w, [r EXCEPT !.pc = "respond",
                              !.sess = [cart |-> res.cart,
                                        cart_count |-> SumQty(res.cart)],
                              !.modified = TRUE,
                              !.notices = res.notices,
                              !.outcome = "rendered"])
    /\ nops' = nops + 1
    /\ UNCHANGED <<products, orders, session, restocked>>
    /\ UNCHANGED <<reviews, ratings, last>>

\* ---------------------------------------------------------------- add item
\* position of the first line whose id is product_id, 0 when there is none
RECURSIVE FindLine(_, _, _)
FindLine(cart, id, k) ==
    IF k > Len(cart) THEN 0
    ELSE IF cart[k].id = id THEN k ELSE FindLine(cart, id, k + 1)

\* add_to_cart() that writes the new quantity into the line and stores the
\* cart before it compares the quantity with the stock
AddToCartDirty(w, s, product_id, quantity) ==
    /\ Free(w)
    /\ nops < MaxOps
    /\ LET r == Accept(w, s, "add", <<Entry(product_id, quantity)>>)
           cart == r.sess.cart
           k == FindLine(cart, product_id, 1)
       IN Settle(w,
            IF product_id = 0
            THEN Done(r, "id_required")
            ELSE IF ~Available(product_id)
            THEN Done(r, "error")
            ELSE LET product == products[product_id]
                     new == IF k > 0
                            THEN [cart EXCEPT ![k].quantity = @ + quantity]
                            ELSE Append(cart,
                                   [id |-> product_id,
                                    name |-> product.name,
                                    price |-> PriceStr(product.price),
                                    quantity |-> quantity])
                     stored == [r EXCEPT !.sess = [cart |-> new,
                                                   cart_count |-> SumQty(new)],
                                         !.modified = TRUE]
                 IN IF quantity > product.stock
                    THEN Done(r, "only_available")
                    ELSE IF k > 0 /\ cart[k].quantity + quantity > product.stock
                    THEN Done(stored, "only_available")
                    ELSE Done(stored, "ok"))
    /\ nops' = nops + 1
    /\ UNCHANGED <<products, orders, session, restocked>>
    /\ UNCHANGED <<reviews, ratings, last>>

\* add_to_cart() without the search for a line of the product: every
\* accepted addition appends a line
AddToCartAppends(w, s, product_id, quantity) ==
    /\ Free(w)
    /\ nops < MaxOps
    /\ LET r == Accept(w, s, "add", <<Entry(product_id, quantity)>>)
           cart == r.sess.cart
       IN Settle(w,
            IF product_id = 0
            THEN Done(r, "id_required")
            ELSE IF ~Available(product_id)
            THEN Done(r, "error")
            ELSE LET product == products[product_id] IN
                 IF quantity > product.stock
                 THEN Done(r, "only_available")
                 ELSE LET new == Append(cart,
                                        [id |-> product_id,
                                         name |-> product.name,
                                         price |-> PriceStr(product.price),
                                         quantity |-> quantity])
                      IN [r EXCEPT !.pc = "respond",
                                   !.sess = [cart |-> new,
                                             cart_count |-> SumQty(new)],
                                   !.modified = TRUE,
                                   !.outcome = "ok"])
    /\ nops' = nops + 1
    /\ UNCHANGED <<products, orders, session, restocked>>
    /\ UNCHANGED <<reviews, ratings, last>>

AddToCart(w, s, product_id, quantity) ==
    /\ Free(w)
    /\ nops < MaxOps
    /\ LET r == Accept(w, s, "add", <<Entry(product_id, quantity)>>)
           cart == r.sess.cart
           k == FindLine(cart, product_id, 1)
       IN Settle(w,
            IF product_id = 0
            THEN Done(r, "id_required")
            ELSE IF ~Available(product_id)
            THEN Done(r, "error")
            ELSE LET product == products[product_id] IN
                 IF quantity > product.stock
                 THEN Done(r, "only_available")
                 ELSE IF k > 0 /\ cart[k].quantity + quantity > product.stock
                 THEN Done(r, "only_available")
                 ELSE LET new == IF k > 0
                                 THEN [cart EXCEPT ![k].quantity = @ + quantity]
                                 ELSE Append(cart,
                                        [id |-> product_id,
                                         name |-> product.name,
                                         price |-> PriceStr(product.price),
                                         quantity |-> quantity])
                      IN [r EXCEPT !.pc = "respond",
                                   !.sess = [cart |-> new,
                                             cart_count |-> SumQty(new)],
                                   !.modified = TRUE,
                                   !.outcome = "ok"])
    /\ nops' = nops + 1
    /\ UNCHANGED <<products, orders, session, restocked>>
    /\ UNCHANGED <<reviews, ratings, last>>

\* -------------------------------------------------------------- update cart
\* a payload entry is [id, quantity]; an entry without one of the two keys is
\* Malformed.  The loop of update_cart(): the cart built, or "rejected" at the
\* first entry over stock, or "error" at the first entry get_object_or_404
\* does not find.
Malformed == [id |-> -1, quantity |-> 0]

\* the loop of update_cart() that passes over an entry above the stock
\* instead of ending the update
RECURSIVE UpdateLoopSkips(_, _)
UpdateLoopSkips(cart_data, validated_cart) ==
    IF cart_data = <<>> THEN [outcome |-> "ok", cart |-> validated_cart]
    ELSE LET item == Head(cart_data) IN
         IF item = Malformed THEN UpdateLoopSkips(Tail(cart_data), validated_cart)
         ELSE IF item.quantity <= 0
         THEN UpdateLoopSkips(Tail(cart_data), validated_cart)
         ELSE IF ~Available(item.id)
         THEN [outcome |-> "error", cart |-> <<>>]
         ELSE LET product == products[item.id] IN
              IF item.quantity > product.stock
              THEN UpdateLoopSkips(Tail(cart_data), validated_cart)
              ELSE UpdateLoopSkips(Tail(cart_data),
                       Append(validated_cart,
                              [id |-> item.id, name |-> product.name,
                               price |-> PriceStr(product.price),
                               quantity |-> item.quantity]))

\* the loop of update_cart() without the skip of a quantity of zero or less
RECURSIVE UpdateLoopKeepsZero(_, _)
UpdateLoopKeepsZero(cart_data, validated_cart) ==
    IF cart_data = <<>> THEN [outcome |-> "ok", cart |-> validated_cart]
    ELSE LET item == Head(cart_data) IN
         IF item = Malformed
         THEN UpdateLoopKeepsZero(Tail(cart_data), validated_cart)
         ELSE IF ~Available(item.id)
         THEN [outcome |-> "error", cart |-> <<>>]
         ELSE LET product == products[item.id] IN
              IF item.quantity > product.stock
              THEN [outcome |-> "only_available", cart |-> <<>>]
              ELSE UpdateLoopKeepsZero(Tail(cart_data),
                       Append(validated_cart,
                              [id |-> item.id, name |-> product.name,
                               price |-> PriceStr(product.price),
                               quantity |-> item.quantity]))

RECURSIVE UpdateLoop(_, _)
UpdateLoop(cart_data, validated_cart) ==
    IF cart_data = <<>> THEN [outcome |-> "ok", cart |-> validated_cart]
    ELSE LET item == Head(cart_data) IN
         IF item = Malformed THEN UpdateLoop(Tail(cart_data), validated_cart)
         ELSE IF item.quantity <= 0
         THEN UpdateLoop(Tail(cart_data), validated_cart)
         ELSE IF ~Available(item.id)
         THEN [outcome |-> "error", cart |-> <<>>]
         ELSE LET product == products[item.id] IN
              IF item.quantity > product.stock
              THEN [outcome |-> "only_available", cart |-> <<>>]
              ELSE UpdateLoop(Tail(cart_data),
                       Append(validated_cart,
                              [id |-> item.id, name |-> product.name,
                               price |-> PriceStr(product.price),
                               quantity |-> item.quantity]))

UpdateCart(w, s, cart_data) ==
    /\ Free(w)
    /\ nops < MaxOps
    /\ LET r == Accept(w, s, "update", cart_data)
           res == UpdateLoop(cart_data, <<>>)
       IN Settle(w,
            IF res.outcome = "ok"
            THEN [r EXCEPT !.pc = "respond",
                           !.sess = [cart |-> res.cart,
                                     cart_count |-> SumQty(res.cart)],
                           !.modified = TRUE,
                           !.outcome = "ok"]
            ELSE Done(r, res.outcome))
    /\ nops' = nops + 1
    /\ UNCHANGED <<products, orders, session, restocked>>
    /\ UNCHANGED <<reviews, ratings, last>>

\* -------------------------------------------------------------- remove item
\* the filter that stops at the first line it removes
RECURSIVE WithoutFirst(_, _)
WithoutFirst(cart, id) ==
    IF cart = <<>> THEN <<>>
    ELSE IF Head(cart).id = id THEN Tail(cart)
         ELSE <<Head(cart)>> \o WithoutFirst(Tail(cart), id)

\* [item for item in cart if str(item['id']) != str(product_id)]
RECURSIVE Without(_, _)
Without(cart, id) ==
    IF cart = <<>> THEN <<>>
    ELSE IF Head(cart).id = id THEN Without(Tail(cart), id)
         ELSE <<Head(cart)>> \o Without(Tail(cart), id)

\* remove_from_cart() that leaves cart_count as it was
RemoveFromCartStale(w, s, product_id) ==
    /\ Free(w)
    /\ nops < MaxOps
    /\ LET r == Accept(w, s, "remove", <<Entry(product_id, 0)>>)
           updated_cart == Without(r.sess.cart, product_id)
       IN Settle(w,
            IF product_id = 0
            THEN Done(r, "id_required")
            ELSE [r EXCEPT !.pc = "respond",
                           !.sess.cart = updated_cart,
                           !.modified = TRUE,
                           !.outcome = "ok"])
    /\ nops' = nops + 1
    /\ UNCHANGED <<products, orders, session, restocked>>
    /\ UNCHANGED <<reviews, ratings, last>>

RemoveFromCart(w, s, product_id) ==
    /\ Free(w)
    /\ nops < MaxOps
    /\ LET r == Accept(w, s, "remove", <<Entry(product_id, 0)>>)
           updated_cart == Without(r.sess.cart, product_id)
       IN Settle(w,
            IF product_id = 0
            THEN Done(r, "id_required")
            ELSE [r EXCEPT !.pc = "respond",
                           !.sess = [cart |-> updated_cart,
                                     cart_count |-> SumQty(updated_cart)],
                           !.modified = TRUE,
                           !.outcome = "ok"])
    /\ nops' = nops + 1
    /\ UNCHANGED <<products, orders, session, restocked>>
    /\ UNCHANGED <<reviews, ratings, last>>

\* ----------------------------------------------------------------- response
\* a response that saves the cart key of the session alone, leaving the
\* cart_count the store holds, is RespondKeepsCount.
\* The response of cart, add_to_cart, update_cart, remove_from_cart and of a
\* checkout that renders its form: the middleware saves the session the view
\* modified, whole, over whatever the store holds.
RespondKeepsCount(w) ==
    /\ req[w].pc = "respond"
    /\ session' = IF req[w].modified
                  THEN [session EXCEPT ![req[w].s].cart = req[w].sess.cart]
                  ELSE session
    /\ req' = [req EXCEPT ![w] = Idle]
    /\ UNCHANGED <<products, orders, nops, restocked>>
    /\ UNCHANGED <<reviews, ratings, last>>

Respond(w) ==
    /\ req[w].pc = "respond"
    /\ session' = IF req[w].modified
                  THEN [session EXCEPT ![req[w].s] = req[w].sess]
                  ELSE session
    /\ req' = [req EXCEPT ![w] = Idle]
    /\ UNCHANGED <<products, orders, nops, restocked>>
    /\ UNCHANGED <<reviews, ratings, last>>

\* ----------------------------------------------------------------- checkout
\* the revalidation loop of checkout() without the comparison with the stock
RECURSIVE CheckoutLoopNoCheck(_, _)
CheckoutLoopNoCheck(items, validated_cart) ==
    IF items = <<>>
    THEN [outcome |-> "ok", cart |-> validated_cart, notices |-> <<>>]
    ELSE LET item == Head(items) IN
         IF ~Available(item.id)
         THEN [outcome |-> "unavailable", cart |-> validated_cart \o items,
               notices |-> <<<<"no_longer", item.name>>>>]
         ELSE LET product == products[item.id] IN
              CheckoutLoopNoCheck(Tail(items),
                  Append(validated_cart,
                         [item EXCEPT !.price = PriceStr(product.price)]))

\* the revalidation loop of checkout(): the validated cart, or the first line
\* that stops the checkout with its error message.  The loop writes the price
\* into the session's own line objects, so at a stop the lines before the
\* failing one already carry the refreshed price.
RECURSIVE CheckoutLoop(_, _)
CheckoutLoop(items, validated_cart) ==
    IF items = <<>>
    THEN [outcome |-> "ok", cart |-> validated_cart, notices |-> <<>>]
    ELSE LET item == Head(items) IN
         IF ~Available(item.id)
         THEN [outcome |-> "unavailable", cart |-> validated_cart \o items,
               notices |-> <<<<"no_longer", item.name>>>>]
         ELSE LET product == products[item.id] IN
              IF item.quantity > product.stock
              THEN [outcome |-> "only_available",
                    cart |-> validated_cart \o items,
                    notices |-> <<<<"only", product.name>>>>]
              ELSE CheckoutLoop(Tail(items),
                       Append(validated_cart,
                              [item EXCEPT !.price = PriceStr(product.price)]))

\* checkout() that empties the cart whenever it has validated it, order or not
CheckoutClears(w, s, valid_post) ==
    /\ Free(w)
    /\ nops < MaxOps
    /\ LET r == Accept(w, s, "checkout", <<>>)
           res == CheckoutLoop(r.sess.cart, <<>>)
       IN Settle(w,
            IF r.sess.cart = <<>>
            THEN Done([r EXCEPT !.notices = <<<<"empty", "">>>>], "empty")
            ELSE IF res.outcome # "ok"
            THEN Done([r EXCEPT !.sess.cart = res.cart,
                                !.notices = res.notices], res.outcome)
            ELSE [r EXCEPT !.pc = IF valid_post THEN "save_order" ELSE "respond",
                           !.sess = EmptySession,
                           !.modified = TRUE,
                           !.validated = res.cart,
                           !.total = CartTotal(res.cart),
                           !.outcome = "form"])
    /\ nops' = nops + 1
    /\ UNCHANGED <<products, orders, session, restocked>>
    /\ UNCHANGED <<reviews, ratings, last>>

\* checkout() without the test for an empty cart
CheckoutNoEmptyCheck(w, s, valid_post) ==
    /\ Free(w)
    /\ nops < MaxOps
    /\ LET r == Accept(w, s, "checkout", <<>>)
           res == CheckoutLoop(r.sess.cart, <<>>)
       IN Settle(w,
            IF res.outcome # "ok"
            THEN Done([r EXCEPT !.sess.cart = res.cart,
                                !.notices = res.notices], res.outcome)
            ELSE [r EXCEPT !.pc = IF valid_post THEN "save_order" ELSE "respond",
                           !.sess.cart = res.cart,
                           !.modified = TRUE,
                           !.validated = res.cart,
                           !.total = CartTotal(res.cart),
                           !.outcome = "form"])
    /\ nops' = nops + 1
    /\ UNCHANGED <<products, orders, session, restocked>>
    /\ UNCHANGED <<reviews, ratings, last>>

\* checkout(), up to the order form.  valid_post: the request is a POST whose
\* OrderForm is valid; otherwise it is a GET or a POST with form errors.
Checkout(w, s, valid_post) ==
    /\ Free(w)
    /\ nops < MaxOps
    /\ LET r == Accept(w, s, "checkout", <<>>)
           res == CheckoutLoop(r.sess.cart, <<>>)
       IN Settle(w,
            IF r.sess.cart = <<>>
            THEN Done([r EXCEPT !.notices = <<<<"empty", "">>>>], "empty")
            ELSE IF res.outcome # "ok"
            THEN Done([r EXCEPT !.sess.cart = res.cart,
                                !.notices = res.notices], res.outcome)
            ELSE [r EXCEPT !.pc = IF valid_post THEN "save_order" ELSE "respond",
                           !.sess.cart = res.cart,
                           !.modified = TRUE,
                           !.validated = res.cart,
                           !.total = CartTotal(res.cart),
                           !.outcome = "form"])
    /\ nops' = nops + 1
    /\ UNCHANGED <<products, orders, session, restocked>>
    /\ UNCHANGED <<reviews, ratings, last>>

\* a save that writes the row without recomputing final_total
OrderSaveStale(o) == o

\* Order.save(): final_total is recomputed, then the row is written
OrderSave(o) ==
    [o EXCEPT !.final_total =
        o.total + o.shipping_cost + o.tax_amount - o.discount_amount]

\* order = form.save(commit=False); items, total, status set; order.save()
SaveOrder(w) ==
    /\ req[w].pc = "save_order"
    /\ LET order == [status |-> "pending",
                     items |-> Dumps(req[w].validated),
                     total |-> req[w].total,
                     shipping_cost |-> 0, tax_amount |-> 0,
                     discount_amount |-> 0, final_total |-> 0]
       IN orders' = Append(orders, OrderSave(order))
    /\ Settle(w, [req[w] EXCEPT !.pc = "read_product",
                                 !.order = Len(orders) + 1, !.i = 1])
    /\ UNCHANGED <<products, session, nops, restocked>>
    /\ UNCHANGED <<reviews, ratings, last>>

\* product = Product.objects.get(id=item['id']): the whole row, active or not
ReadProduct(w) ==
    /\ req[w].pc = "read_product"
    /\ Settle(w, [req[w] EXCEPT
                     !.pc = "save_product",
                     !.product = products[req[w].validated[req[w].i].id]])
    /\ UNCHANGED <<products, orders, session, nops, restocked>>
    /\ UNCHANGED <<reviews, ratings, last>>

\* product.stock -= item['quantity']; product.save(): every column of the row
\* read is written back.  stock is a PositiveIntegerField: the database
\* refuses a negative value, and checkout does not catch the IntegrityError,
\* so the request ends in a server error and its session is not saved.
SaveProduct(w) ==
    /\ req[w].pc = "save_product"
    /\ LET r == req[w]
           item == r.validated[r.i]
           stock == r.product.stock - item.quantity
       IN IF stock < 0
          THEN /\ Settle(w, Done([r EXCEPT !.modified = FALSE],
                                  "server_error"))
               /\ UNCHANGED products
          ELSE /\ products' = [products EXCEPT ![item.id] =
                                 [r.product EXCEPT !.stock = stock]]
               /\ Settle(w, [r EXCEPT !.pc = IF r.i = Len(r.validated)
                                               THEN "notify" ELSE "read_product",
                                        !.i = r.i + 1,
                                        !.product = NoProduct])
    /\ UNCHANGED <<orders, session, nops, restocked>>
    /\ UNCHANGED <<reviews, ratings, last>>

\* a send_mail that raises is caught and logged
Sent(ok) == IF ok THEN "sent" ELSE "failed"

\* the send_mail calls outside any try: a send that raises ends the request
\* in a server error, before the cart is cleared
NotifyUncaught(w, admin_ok, customer_ok) ==
    /\ req[w].pc = "notify"
    /\ Settle(w,
          IF admin_ok /\ customer_ok
          THEN Done([req[w] EXCEPT
                        !.admin_mail = "sent", !.customer_mail = "sent",
                        !.sess = [cart |-> <<>>, cart_count |-> 0],
                        !.modified = TRUE],
                    "success")
          ELSE Done([req[w] EXCEPT
                        !.admin_mail = Sent(admin_ok),
                        !.customer_mail = IF admin_ok THEN "failed" ELSE "none",
                        !.modified = FALSE],
                    "server_error"))
    /\ UNCHANGED <<products, orders, session, nops, restocked>>
    /\ UNCHANGED <<reviews, ratings, last>>

\* the mails are sent, but the cart is not cleared
NotifyKeepsCart(w, admin_ok, customer_ok) ==
    /\ req[w].pc = "notify"
    /\ Settle(w, Done([req[w] EXCEPT
                          !.admin_mail = Sent(admin_ok),
                          !.customer_mail = Sent(customer_ok),
                          !.modified = TRUE],
                      "success"))
    /\ UNCHANGED <<products, orders, session, nops, restocked>>
    /\ UNCHANGED <<reviews, ratings, last>>

\* the two send_mail calls, each in its own try/except, then the cart is
\* cleared and the view redirects to the success page
Notify(w, admin_ok, customer_ok) ==
    /\ req[w].pc = "notify"
    /\ Settle(w, Done([req[w] EXCEPT
                          !.admin_mail = Sent(admin_ok),
                          !.customer_mail = Sent(customer_ok),
                          !.sess = [cart |-> <<>>, cart_count |-> 0],
                          !.modified = TRUE],
                      "success"))
    /\ UNCHANGED <<products, orders, session, nops, restocked>>
    /\ UNCHANGED <<reviews, ratings, last>>

\* -------------------------------------------------------------------- staff
\* the order's line, were it to follow the product row
LiveLine(line, p, name, price) ==
    IF line[1] = p THEN <<line[1], name, PriceStr(price), line[4]>> ELSE line

\* a product change that reaches into the orders that hold the product, as
\* if their items referred to the row
AdminChangeProductLive(p, name, price, stock, is_active) ==
    /\ nops < MaxOps
    /\ products' = [products EXCEPT ![p] =
                      [name |-> name, price |-> price, stock |-> stock,
                       is_active |-> is_active]]
    /\ orders' = [o \in DOMAIN orders |->
                    [orders[o] EXCEPT !.items =
                        [k \in DOMAIN orders[o].items |->
                            LiveLine(orders[o].items[k], p, name, price)]]]
    /\ restocked' = IF stock # products[p].stock
                    THEN restocked \cup {p} ELSE restocked
    /\ nops' = nops + 1
    /\ UNCHANGED <<session, req>>
    /\ UNCHANGED <<reviews, ratings, last>>

\* ProductAdmin change form: name, price, stock and is_active are editable
AdminChangeProduct(p, name, price, stock, is_active) ==
    /\ nops < MaxOps
    /\ products' = [products EXCEPT ![p] =
                      [name |-> name, price |-> price, stock |-> stock,
                       is_active |-> is_active]]
    /\ restocked' = IF stock # products[p].stock
                    THEN restocked \cup {p} ELSE restocked
    /\ nops' = nops + 1
    /\ UNCHANGED <<orders, session, req>>
    /\ UNCHANGED <<reviews, ratings, last>>

activate_products(queryset) ==
    /\ nops < MaxOps
    /\ products' = [p \in Products |->
                      IF p \in queryset
                      THEN [products[p] EXCEPT !.is_active = TRUE]
                      ELSE products[p]]
    /\ nops' = nops + 1
    /\ UNCHANGED <<orders, session, req, restocked>>
    /\ UNCHANGED <<reviews, ratings, last>>

deactivate_products(queryset) ==
    /\ nops < MaxOps
    /\ products' = [p \in Products |->
                      IF p \in queryset
                      THEN [products[p] EXCEPT !.is_active = FALSE]
                      ELSE products[p]]
    /\ nops' = nops + 1
    /\ UNCHANGED <<orders, session, req, restocked>>
    /\ UNCHANGED <<reviews, ratings, last>>

clear_stock(queryset) ==
    /\ nops < MaxOps
    /\ products' = [p \in Products |->
                      IF p \in queryset
                      THEN [products[p] EXCEPT !.stock = 0]
                      ELSE products[p]]
    /\ restocked' = restocked \cup queryset
    /\ nops' = nops + 1
    /\ UNCHANGED <<orders, session, req>>
    /\ UNCHANGED <<reviews, ratings, last>>

Statuses ==
    {"pending", "confirmed", "processing", "shipped", "delivered",
     "cancelled", "refunded"}
Charges == {0, 500}

\* OrderAdmin change form: status and the amounts are editable, final_total is
\* read-only; the form saves through Order.save()
AdminChangeOrder(o, status, total, shipping_cost, tax_amount, discount_amount) ==
    /\ nops < MaxOps
    /\ o \in DOMAIN orders
    /\ orders' = [orders EXCEPT ![o] =
                    OrderSave([@ EXCEPT !.status = status,
                                        !.total = total,
                                        !.shipping_cost = shipping_cost,
                                        !.tax_amount = tax_amount,
                                        !.discount_amount = discount_amount])]
    /\ nops' = nops + 1
    /\ UNCHANGED <<products, session, req, restocked>>
    /\ UNCHANGED <<reviews, ratings, last>>

\* OrderAdmin list actions: queryset.update(status=...), on whatever orders
\* are ticked and whatever their status is; Order.save() is not run
mark_as_processing(queryset) ==
    /\ nops < MaxStaffOps
    /\ orders' = [o \in DOMAIN orders |->
                    IF o \in queryset
                    THEN [orders[o] EXCEPT !.status = "processing"]
                    ELSE orders[o]]
    /\ nops' = nops + 1
    /\ UNCHANGED <<products, session, req, restocked>>
    /\ UNCHANGED <<reviews, ratings, last>>

mark_as_shipped(queryset) ==
    /\ nops < MaxStaffOps
    /\ orders' = [o \in DOMAIN orders |->
                    IF o \in queryset
                    THEN [orders[o] EXCEPT !.status = "shipped"]
                    ELSE orders[o]]
    /\ nops' = nops + 1
    /\ UNCHANGED <<products, session, req, restocked>>
    /\ UNCHANGED <<reviews, ratings, last>>

mark_as_delivered(queryset) ==
    /\ nops < MaxStaffOps
    /\ orders' = [o \in DOMAIN orders |->
                    IF o \in queryset
                    THEN [orders[o] EXCEPT !.status = "delivered"]
                    ELSE orders[o]]
    /\ nops' = nops + 1
    /\ UNCHANGED <<products, session, req, restocked>>
    /\ UNCHANGED <<reviews, ratings, last>>

mark_as_cancelled(queryset) ==
    /\ nops < MaxStaffOps
    /\ orders' = [o \in DOMAIN orders |->
                    IF o \in queryset
                    THEN [orders[o] EXCEPT !.status = "cancelled"]
                    ELSE orders[o]]
    /\ nops' = nops + 1
    /\ UNCHANGED <<products, session, req, restocked>>
    /\ UNCHANGED <<reviews, ratings, last>>

\* ------------------------------------------------------------------ reviews
\* the ratings of the approved reviews of product p, as a bag: how many
\* reviews, and the sum of their stars
RECURSIVE Approved(_, _, _)
Approved(rows, p, k) ==
    IF k > Len(rows) THEN [count |-> 0, sum |-> 0]
    ELSE LET rest == Approved(rows, p, k + 1) IN
         IF rows[k].product = p /\ rows[k].is_approved
         THEN [count |-> rest.count + 1, sum |-> rest.sum + rows[k].rating]
         ELSE rest

\* round(avg_rating, 1) of the mean sum / count, in tenths: to the nearest
\* tenth, a tie going to the even tenth
Round1(sum, count) ==
    LET tenths == (10 * sum) \div count
        rest == (10 * sum) % count
    IN IF 2 * rest < count THEN tenths
       ELSE IF 2 * rest > count THEN tenths + 1
       ELSE IF tenths % 2 = 0 THEN tenths ELSE tenths + 1

\* update_product_rating() over every review of the product, approved or not
update_rating_all(rows, p, columns) ==
    LET count == Cardinality({k \in DOMAIN rows : rows[k].product = p})
        sum == Approved([k \in DOMAIN rows |->
                            [rows[k] EXCEPT !.is_approved = TRUE]], p, 1).sum
    IN IF count > 0
       THEN [columns EXCEPT ![p] = [rating |-> Round1(sum, count),
                                    review_count |-> count]]
       ELSE columns

\* ProductReview.update_product_rating(), for a review of product p: the
\* rating and review_count columns after it
update_product_rating(rows, p, columns) ==
    LET approved_reviews == Approved(rows, p, 1)
    IN IF approved_reviews.count > 0
       THEN [columns EXCEPT ![p] =
                [rating |-> Round1(approved_reviews.sum,
                                   approved_reviews.count),
                 review_count |-> approved_reviews.count]]
       ELSE columns

\* a save of a review that updates the product rating whether the review is
\* approved or not
AdminSaveReviewAlways(k, product, rating, is_approved) ==
    /\ nops < MaxStaffOps
    /\ k \in 1 .. Len(reviews) + 1 /\ k <= MaxReviews
    /\ LET row == [product |-> product, rating |-> rating,
                   is_approved |-> is_approved]
           rows == IF k > Len(reviews) THEN Append(reviews, row)
                   ELSE [reviews EXCEPT ![k] = row]
       IN /\ reviews' = rows
          /\ ratings' = update_product_rating(rows, product, ratings)
    /\ last' = [op |-> "save", review |-> k, at |-> nops + 1]
    /\ nops' = nops + 1
    /\ UNCHANGED <<products, orders, session, req, restocked>>

\* ProductReviewAdmin add and change forms: the row is written through
\* ProductReview.save(), which updates the product rating when the review
\* saved is approved.  k is the row changed, or the next id for a new row.
AdminSaveReview(k, product, rating, is_approved) ==
    /\ nops < MaxStaffOps
    /\ k \in 1 .. Len(reviews) + 1 /\ k <= MaxReviews
    /\ LET row == [product |-> product, rating |-> rating,
                   is_approved |-> is_approved]
           rows == IF k > Len(reviews) THEN Append(reviews, row)
                   ELSE [reviews EXCEPT ![k] = row]
       IN /\ reviews' = rows
          /\ ratings' = IF is_approved
                        THEN update_product_rating(rows, product, ratings)
                        ELSE ratings
    /\ last' = [op |-> "save", review |-> k, at |-> nops + 1]
    /\ nops' = nops + 1
    /\ UNCHANGED <<products, orders, session, req, restocked>>

\* ProductReviewAdmin list actions: queryset.update(is_approved=...), which
\* does not run ProductReview.save()
approve_reviews(queryset) ==
    /\ nops < MaxStaffOps
    /\ reviews' = [k \in DOMAIN reviews |->
                     IF k \in queryset
                     THEN [reviews[k] EXCEPT !.is_approved = TRUE]
                     ELSE reviews[k]]
    /\ last' = [op |-> "approve", review |-> 0, at |-> nops + 1]
    /\ nops' = nops + 1
    /\ UNCHANGED <<products, orders, session, req, restocked, ratings>>

disapprove_reviews(queryset) ==
    /\ nops < MaxStaffOps
    /\ reviews' = [k \in DOMAIN reviews |->
                     IF k \in queryset
                     THEN [reviews[k] EXCEPT !.is_approved = FALSE]
                     ELSE reviews[k]]
    /\ last' = [op |-> "disapprove", review |-> 0, at |-> nops + 1]
    /\ nops' = nops + 1
    /\ UNCHANGED <<products, orders, session, req, restocked, ratings>>

\* ------------------------------------------------------------ specification
Ids == {0} \cup Products \cup {UnknownId}
Entries ==
    {Entry(1, 1), Entry(1, MaxQty), Entry(NumProducts, 0),
     Entry(NumProducts, MaxQty), Entry(UnknownId, 1), Malformed}
MaxPayload == 2
Payloads == UNION {[1 .. n -> Entries] : n \in 0 .. MaxPayload}

\* what staff submit in a product change form: one field is changed
ProductEdits(p) ==
    {[products[p] EXCEPT !.name = name] : name \in Names}
    \cup {[products[p] EXCEPT !.price = price] : price \in Prices}
    \cup {[products[p] EXCEPT !.stock = stock] : stock \in 0 .. MaxStock}
    \cup {[products[p] EXCEPT !.is_active = b] : b \in BOOLEAN}

\* the rows staff tick before running a list action
Querysets == SUBSET Products \ {{}}

\* what staff submit in an order change form: the status, or the amounts
OrderEdits(o) ==
    {[orders[o] EXCEPT !.status = status] : status \in Statuses}
    \cup {[orders[o] EXCEPT !.total = total, !.shipping_cost = sc,
                            !.tax_amount = ta, !.discount_amount = da] :
              total \in {orders[o].total, 1000}, sc \in Charges,
              ta \in Charges, da \in Charges}

Next ==
    \/ \E w \in Workers, s \in Sessions : CartView(w, s)
    \/ \E w \in Workers, s \in Sessions, id \in Ids, q \in QtyInputs :
          AddToCart(w, s, id, q)
    \/ \E w \in Workers, s \in Sessions, cart_data \in Payloads :
          UpdateCart(w, s, cart_data)
    \/ \E w \in Workers, s \in Sessions, id \in Ids : RemoveFromCart(w, s, id)
    \/ \E w \in Workers : Respond(w)
    \/ \E w \in Workers, s \in Sessions, valid_post \in BOOLEAN :
          Checkout(w, s, valid_post)
    \/ \E w \in Workers : SaveOrder(w)
    \/ \E w \in Workers : ReadProduct(w)
    \/ \E w \in Workers : SaveProduct(w)
    \/ \E w \in Workers, admin_ok \in BOOLEAN, customer_ok \in BOOLEAN :
          Notify(w, admin_ok, customer_ok)
    \/ \E p \in Products : \E edit \in ProductEdits(p) :
          AdminChangeProduct(p, edit.name, edit.price, edit.stock,
                             edit.is_active)
    \/ \E queryset \in Querysets : activate_products(queryset)
    \/ \E queryset \in Querysets : deactivate_products(queryset)
    \/ \E queryset \in Querysets : clear_stock(queryset)
    \/ \E o \in DOMAIN orders : \E edit \in OrderEdits(o) :
          AdminChangeOrder(o, edit.status, edit.total, edit.shipping_cost,
                           edit.tax_amount, edit.discount_amount)

Spec == Init /\ [][Next]_vars

\* The back office once the shop has taken and shipped its first order: the
\* visitor of session 1 has bought the last unit of product 1, and staff have
\* marked the order as shipped.
StaffInit ==
    /\ products = [p \in Products |->
                     [name |-> "Tee", price |-> 150,
                      stock |-> IF p = 1 THEN 0 ELSE InitialStock(p),
                      is_active |-> TRUE]]
    /\ orders = <<[OrderSave([status |-> "pending",
                              items |-> Dumps(<<InitialLine(1, 1)>>),
                              total |-> CartTotal(<<InitialLine(1, 1)>>),
                              shipping_cost |-> 0, tax_amount |-> 0,
                              discount_amount |-> 0, final_total |-> 0])
                      EXCEPT !.status = "shipped"]>>
    /\ session = [s \in Sessions |-> EmptySession]
    /\ req = [w \in Workers |-> Idle]
    /\ nops = 0
    /\ restocked = {}
    /\ reviews = <<>>
    /\ ratings = [p \in Products |-> NoRating]
    /\ last = NoStaffOp

\* the stars staff enter for a review, among RATING_CHOICES
RatingInputs == {1, 2, 5}

\* the orders, or the reviews, staff tick before running a list action
OrderQuerysets == SUBSET (DOMAIN orders) \ {{}}
ReviewQuerysets == SUBSET (DOMAIN reviews) \ {{}}

StaffNext ==
    \/ \E queryset \in OrderQuerysets : mark_as_processing(queryset)
    \/ \E queryset \in OrderQuerysets : mark_as_shipped(queryset)
    \/ \E queryset \in OrderQuerysets : mark_as_delivered(queryset)
    \/ \E queryset \in OrderQuerysets : mark_as_cancelled(queryset)
    \/ \E o \in DOMAIN orders : \E status \in Statuses :
          AdminChangeOrder(o, status, orders[o].total, orders[o].shipping_cost,
                           orders[o].tax_amount, orders[o].discount_amount)
    \/ \E k \in 1 .. MaxReviews, product \in Products,
          rating \in RatingInputs, is_approved \in BOOLEAN :
          AdminSaveReview(k, product, rating, is_approved)
    \/ \E queryset \in ReviewQuerysets : approve_reviews(queryset)
    \/ \E queryset \in ReviewQuerysets : disapprove_reviews(queryset)

StaffSpec == StaffInit /\ [][StaffNext]_vars

\* ------------------------------------------------------------------- claims
\* units of product p in the items of order o
RECURSIVE QtyOf(_, _)
QtyOf(cart, p) ==
    IF cart = <<>> THEN 0
    ELSE (IF Head(cart).id = p THEN Head(cart).quantity ELSE 0)
         + QtyOf(Tail(cart), p)

\* worker w takes a request in this step
Begins(w) == req[w].pc = "idle" /\ req'[w].pc # "idle"

\* worker w's answer goes out in this step
Answers(w) == req[w].pc = "respond" /\ req'[w].pc = "idle"

\* every line of the cart asks for no more than the stock of its product
WithinStock(cart) ==
    \A k \in DOMAIN cart : cart[k].quantity <= products[cart[k].id].stock

\* C1: two checkouts in flight for different sessions, each holding one unit
\* of a product that opened with one unit in stock and was never restocked,
\* never both persist an order: one commits, the other is rejected.
C1_OneCheckoutWins ==
    \A w1 \in Workers, w2 \in Workers, p \in Products :
        (/\ w1 # w2
         /\ req[w1].op = "checkout" /\ req[w2].op = "checkout"
         /\ req[w1].s # req[w2].s
         /\ InitialStock(p) = 1 /\ p \notin restocked
         /\ QtyOf(req[w1].validated, p) = 1
         /\ QtyOf(req[w2].validated, p) = 1)
            => ~(/\ req[w1].order \in DOMAIN orders
                 /\ req[w2].order \in DOMAIN orders)

\* C2 as claimed: in every context (cart view, checkout, add-item,
\* update-cart, remove-item) the cart a request reconciles and stores holds
\* no line above the stock of its product.
C2_EveryContext ==
    [][\A w \in Workers :
          (Begins(w) /\ req'[w].modified) => WithinStock(req'[w].sess.cart)]_vars

\* C2 amended: the cart that cart view, update-cart or a checkout passing
\* pre-flight stores holds no line above the stock read for its product;
\* add-item guarantees it of the line it appends or merges into; remove-item
\* checks no line.
C2_ReconciledWithinStock ==
    [][\A w \in Workers :
          (Begins(w) /\ req'[w].modified) =>
              LET old == session[req'[w].s].cart
                  new == req'[w].sess.cart
              IN /\ req'[w].op \in {"cart", "update", "checkout"}
                        => WithinStock(new)
                 /\ req'[w].op = "add"
                        => \A k \in DOMAIN new :
                               (k > Len(old) \/ new[k] # old[k])
                                   => new[k].quantity
                                        <= products[new[k].id].stock]_vars

\* a cart view has cut a line down to the stock left
C2_Witness ==
    \E w \in Workers :
        /\ req[w].pc = "respond" /\ req[w].op = "cart"
        /\ \E k \in DOMAIN req[w].notices : req[w].notices[k][1] = "adjusted"
        /\ req[w].sess.cart # <<>>

\* C3: a checkout whose stock decrement fails leaves no order of the attempt
\* and no stock decremented by it.
C3_AllOrNothing ==
    \A w \in Workers :
        req[w].outcome = "server_error"
            => req[w].order \notin DOMAIN orders /\ req[w].i = 1

\* C4: stock is never negative, and a commit whose decrement would take a
\* product's stock below zero is rejected, not applied: no order of it is
\* persisted.
C4_StockNeverNegative ==
    /\ \A p \in Products : products[p].stock >= 0
    /\ \A w \in Workers :
          (/\ req[w].pc = "save_product"
           /\ req[w].product.stock < req[w].validated[req[w].i].quantity)
              => req[w].order \notin DOMAIN orders

\* C5: the cart_count a session stores is the sum of the quantities of the
\* lines of the cart it stores.
C5_CartCount ==
    \A s \in Sessions : session[s].cart_count = SumQty(session[s].cart)

\* a request has stored a cart with several units that no visitor started with
C5_Witness ==
    \E s \in Sessions :
        /\ session[s].cart \notin InitialCarts
        /\ session[s].cart_count > 1
        /\ nops > 0

\* C6: whatever the two mail sends do, the checkout that reached them ends in
\* success with its order persisted, no stock restored, the customer mail
\* attempted after the admin mail, and its response stores the emptied cart.
C6_MailNeverFatal ==
    [][\A w \in Workers :
          /\ (req[w].pc = "notify" /\ req'[w].pc # "notify")
                => /\ req'[w].pc = "respond"
                   /\ req'[w].outcome = "success"
                   /\ req'[w].modified
                   /\ req'[w].admin_mail \in {"sent", "failed"}
                   /\ req'[w].customer_mail \in {"sent", "failed"}
                   /\ req'[w].order \in DOMAIN orders'
                   /\ orders' = orders
                   /\ products' = products
          /\ (Answers(w) /\ req[w].admin_mail # "none")
                => session'[req[w].s] = EmptySession]_vars

\* both mails of a committed checkout have failed
C6_Witness ==
    \E w \in Workers :
        /\ req[w].pc = "respond" /\ req[w].outcome = "success"
        /\ req[w].admin_mail = "failed" /\ req[w].customer_mail = "failed"
        /\ req[w].order \in DOMAIN orders

\* C7: the response of a committed checkout stores the empty cart and a
\* cart_count of 0, and a checkout of a session whose cart is empty is turned
\* away without an order.
C7_CartClearedAfterCommit ==
    [][\A w \in Workers :
          /\ (Answers(w) /\ req[w].outcome = "success")
                => /\ session'[req[w].s].cart = <<>>
                   /\ session'[req[w].s].cart_count = 0
          /\ (Begins(w) /\ req'[w].op = "checkout"
                /\ session[req'[w].s].cart = <<>>)
                => /\ req'[w].pc = "respond"
                   /\ req'[w].outcome = "empty"
                   /\ ~req'[w].modified
                   /\ orders' = orders]_vars

\* a checkout is turned away as empty in a session that an order has emptied
C7_Witness ==
    \E w \in Workers :
        /\ req[w].op = "checkout" /\ req[w].outcome = "empty"
        /\ Len(orders) = 1
        /\ \A v \in Workers : v # w => req[v].pc = "idle"
        /\ \A s \in Sessions :
              s # req[w].s => session[s].cart \in InitialCarts \ {<<>>}

\* price * quantity over the lines, at the prices of the Product rows
RECURSIVE CatalogTotal(_)
CatalogTotal(cart) ==
    IF cart = <<>> THEN 0
    ELSE products[Head(cart).id].price * Head(cart).quantity
         + CatalogTotal(Tail(cart))

\* C8: the order a checkout inserts is pending with the cart total as its
\* total, and each product.save() of the commit leaves the stock of a product
\* staff have not restocked lower by exactly the line's quantity.
C8_CommitEffect ==
    [][\A w \in Workers :
          /\ (req[w].pc = "idle" /\ req'[w].pc = "save_order")
                => req'[w].total = CatalogTotal(req'[w].validated)
          /\ (req[w].pc = "save_order" /\ req'[w].pc # "save_order")
                => /\ orders'[req'[w].order].status = "pending"
                   /\ orders'[req'[w].order].total = req[w].total
          /\ (req[w].pc = "save_product" /\ req'[w].pc \in {"read_product", "notify"})
                => LET item == req[w].validated[req[w].i]
                   IN item.id \notin restocked
                        => products'[item.id].stock
                             = products[item.id].stock - item.quantity]_vars

\* C9: every order row has final_total = total + shipping_cost + tax_amount
\* - discount_amount.
C9_FinalTotal ==
    \A o \in DOMAIN orders :
        orders[o].final_total =
            orders[o].total + orders[o].shipping_cost + orders[o].tax_amount
            - orders[o].discount_amount

\* staff have saved an order with a discount and a shipping cost
C9_Witness ==
    \E o \in DOMAIN orders :
        /\ orders[o].discount_amount > 0
        /\ orders[o].shipping_cost > 0
        /\ orders[o].total > 0

\* C10: a step that changes the catalog, a session or a request in flight
\* (a product edit or list action, a cart mutation, a checkout) leaves the
\* items and the total of every order already persisted as they were.
C10_FrozenSnapshot ==
    [][(products' # products \/ session' # session \/ req' # req)
          => \A o \in DOMAIN orders :
                /\ o \in DOMAIN orders'
                /\ orders'[o].items = orders[o].items
                /\ orders'[o].total = orders[o].total]_vars

\* an order holds a line at a price or name its product no longer has, or of
\* a product since deactivated
C10_Witness ==
    \E o \in DOMAIN orders :
        \E k \in DOMAIN orders[o].items :
            LET line == GetItems(orders[o].items)[k]
            IN \/ FloatOf(line.price) # products[line.id].price
               \/ line.name # products[line.id].name
               \/ ~products[line.id].is_active

\* the positions of the lines of product p in the cart
LinesOf(cart, p) == {k \in DOMAIN cart : cart[k].id = p}

\* C11: whatever add-item, update-cart, remove-item, cart view and checkout
\* requests have run, a stored session cart holds at most one line per
\* product id.
C11_OneLinePerProduct ==
    \A s \in Sessions : \A p \in Products :
        Cardinality(LinesOf(session[s].cart, p)) <= 1

\* C12: an add-item of a quantity within the stock for a product the cart has
\* no line of appends one line of that quantity; an add-item of quantity q2
\* for a product of which the cart holds one line, of a quantity q1 >= 1 as
\* that first add-item left it, with q1 + q2 within the stock, is accepted
\* and changes nothing but that line, whose quantity becomes q1 + q2; no line
\* is appended, cart_count follows, and the response stores that cart.
C12_AddMerges ==
    [][\A w \in Workers :
          /\ (Begins(w) /\ req'[w].op = "add") =>
                LET old == session[req'[w].s].cart
                    new == req'[w].sess.cart
                    p == req'[w].data[1].id
                    q2 == req'[w].data[1].quantity
                IN /\ (/\ Available(p)
                       /\ LinesOf(old, p) = {}
                       /\ q2 <= products[p].stock)
                          => /\ req'[w].outcome = "ok"
                             /\ req'[w].modified
                             /\ new = Append(old,
                                         [id |-> p,
                                          name |-> products[p].name,
                                          price |-> PriceStr(products[p].price),
                                          quantity |-> q2])
                   /\ \A k \in DOMAIN old :
                      (/\ Available(p)
                       /\ LinesOf(old, p) = {k}
                       /\ old[k].quantity >= 1
                       /\ old[k].quantity + q2 <= products[p].stock)
                          => /\ req'[w].outcome = "ok"
                             /\ req'[w].modified
                             /\ new = [old EXCEPT
                                         ![k].quantity = old[k].quantity + q2]
                             /\ req'[w].sess.cart_count = SumQty(new)
          /\ (Answers(w) /\ req[w].op = "add" /\ req[w].outcome = "ok")
                => session'[req[w].s] = req[w].sess]_vars

\* a second add-item of one unit has made the line of one unit a line of two
C12_Witness ==
    \E w \in Workers :
        /\ req[w].pc = "respond" /\ req[w].op = "add"
        /\ req[w].outcome = "ok"
        /\ req[w].data = <<Entry(NumProducts, 1)>>
        /\ session[req[w].s].cart = <<InitialLine(NumProducts, 1)>>
        /\ req[w].sess.cart = <<InitialLine(NumProducts, 2)>>

\* C13: every line of a stored session cart has a quantity of at least 1.
C13_PositiveQuantity ==
    \A s \in Sessions : \A k \in DOMAIN session[s].cart :
        session[s].cart[k].quantity >= 1

\* the lines of the cart whose product the catalog still offers
Offered(cart) == SelectSeq(cart, LAMBDA line : Available(line.id))

\* some line of the cart is of a product no longer offered
HasGone(cart) == \E k \in DOMAIN cart : ~Available(cart[k].id)

\* some line of the cart asks for more than the stock of its product
HasOver(cart) ==
    \E k \in DOMAIN cart :
        Available(cart[k].id) /\ cart[k].quantity > products[cart[k].id].stock

\* the notice is among those the request emitted
Notified(w, notice) ==
    \E n \in DOMAIN req'[w].notices : req'[w].notices[n] = notice

\* C14 as claimed: the next reconciliation of a cart that holds a line of a
\* deactivated product, be it a cart view or a checkout, stores the cart
\* without that line and emits a notice naming it.
C14_NextReconciliationRemoves ==
    [][\A w \in Workers :
          (/\ Begins(w) /\ req'[w].op \in {"cart", "checkout"}
           /\ HasGone(session[req'[w].s].cart))
              => /\ req'[w].modified
                 /\ ~HasGone(req'[w].sess.cart)
                 /\ \A k \in DOMAIN session[req'[w].s].cart :
                       LET line == session[req'[w].s].cart[k]
                       IN ~Available(line.id)
                            => \E n \in DOMAIN req'[w].notices :
                                  req'[w].notices[n][2] = line.name]_vars

\* C14 amended: the next cart view of such a cart stores it without the lines
\* of products no longer offered, the other lines kept in order, with a
\* notice naming each line removed; a checkout of such a cart stops before
\* any order with an error notice, naming the line when it is the first to
\* fail, and leaves the stored cart as it was.
C14_CartViewRemoves ==
    [][\A w \in Workers :
          /\ (Begins(w) /\ req'[w].op = "cart") =>
                LET old == session[req'[w].s].cart
                    new == req'[w].sess.cart
                IN /\ req'[w].modified
                   /\ Len(new) = Len(Offered(old))
                   /\ \A k \in DOMAIN new : new[k].id = Offered(old)[k].id
                   /\ \A k \in DOMAIN old :
                         ~Available(old[k].id)
                            => Notified(w, <<"removed", old[k].name>>)
          /\ (Answers(w) /\ req[w].op = "cart")
                => session'[req[w].s] = req[w].sess
          /\ (/\ Begins(w) /\ req'[w].op = "checkout"
              /\ HasGone(session[req'[w].s].cart))
                => /\ req'[w].pc = "respond"
                   /\ req'[w].outcome \in {"unavailable", "only_available"}
                   /\ ~req'[w].modified
                   /\ orders' = orders
                   /\ Len(req'[w].notices) = 1
                   /\ req'[w].outcome = "unavailable"
                         => \E k \in DOMAIN session[req'[w].s].cart :
                               LET line == session[req'[w].s].cart[k]
                               IN /\ ~Available(line.id)
                                  /\ req'[w].notices[1]
                                        = <<"no_longer", line.name>>]_vars

\* a cart view has dropped the line of a deactivated product from a cart that
\* the session store still holds with it
C14_Witness ==
    \E w \in Workers :
        /\ req[w].pc = "respond" /\ req[w].op = "cart"
        /\ HasGone(session[req[w].s].cart)
        /\ ~HasGone(req[w].sess.cart)
        /\ req[w].notices = <<<<"removed", "Tee">>>>

\* C15: a cart view cuts every offered line above its product's stock down to
\* that stock, with a warning naming the product, keeps the quantity of the
\* lines within stock, rejects nothing, and its response stores the result.
C15_CartViewClamps ==
    [][\A w \in Workers :
          /\ (Begins(w) /\ req'[w].op = "cart") =>
                LET old == Offered(session[req'[w].s].cart)
                    new == req'[w].sess.cart
                IN /\ req'[w].pc = "respond"
                   /\ req'[w].outcome = "rendered"
                   /\ req'[w].modified
                   /\ Len(new) = Len(old)
                   /\ \A k \in DOMAIN old :
                         LET product == products[old[k].id]
                         IN IF old[k].quantity > product.stock
                            THEN /\ new[k].quantity = product.stock
                                 /\ Notified(w, <<"adjusted", product.name>>)
                            ELSE new[k].quantity = old[k].quantity
          /\ (Answers(w) /\ req[w].op = "cart")
                => session'[req[w].s].cart = req[w].sess.cart]_vars

\* a cart view has cut one line of a cart and kept the quantity of another
C15_Witness ==
    \E w \in Workers :
        /\ req[w].pc = "respond" /\ req[w].op = "cart"
        /\ Len(req[w].sess.cart) = 2
        /\ Len(session[req[w].s].cart) = 2
        /\ \E j \in 1 .. 2, k \in 1 .. 2 :
              /\ req[w].sess.cart[j].quantity < session[req[w].s].cart[j].quantity
              /\ req[w].sess.cart[k].quantity = session[req[w].s].cart[k].quantity
              /\ req[w].sess.cart[k].quantity >= 1

\* C16: a checkout of a cart with a line above its product's stock, or of a
\* product no longer offered, stops at pre-flight: no order is inserted, no
\* stock is written, and its response leaves the session store as it was.
C16_PreflightRejects ==
    [][\A w \in Workers :
          /\ (/\ Begins(w) /\ req'[w].op = "checkout"
              /\ (HasGone(session[req'[w].s].cart)
                     \/ HasOver(session[req'[w].s].cart)))
                => /\ req'[w].pc = "respond"
                   /\ req'[w].outcome \in {"unavailable", "only_available"}
                   /\ ~req'[w].modified
                   /\ req'[w].order = 0
                   /\ orders' = orders
                   /\ products' = products
          /\ (/\ Answers(w) /\ req[w].op = "checkout"
              /\ req[w].outcome \in {"unavailable", "only_available"})
                => /\ session' = session
                   /\ orders' = orders
                   /\ products' = products]_vars

\* a checkout has been stopped for a line above the stock left
C16_Witness ==
    \E w \in Workers :
        /\ req[w].pc = "respond" /\ req[w].op = "checkout"
        /\ req[w].outcome = "only_available"
        /\ HasOver(session[req[w].s].cart)
        /\ orders = <<>>

\* the first line of product p in the cart (the line add_to_cart finds)
FirstLineOf(cart, p) ==
    CHOOSE k \in LinesOf(cart, p) : \A j \in LinesOf(cart, p) : k <= j

\* C17: an add-item for an offered product that asks for more than its
\* stock, alone or together with the quantity of the line the cart already
\* holds, is refused, and its response leaves the cart and cart_count of the
\* session store as they were.
C17_RejectedAddKeepsCart ==
    [][\A w \in Workers :
          /\ (Begins(w) /\ req'[w].op = "add") =>
                LET old == session[req'[w].s].cart
                    p == req'[w].data[1].id
                    q == req'[w].data[1].quantity
                IN (/\ Available(p)
                    /\ \/ q > products[p].stock
                       \/ /\ LinesOf(old, p) # {}
                          /\ old[FirstLineOf(old, p)].quantity + q
                                > products[p].stock)
                       => /\ req'[w].pc = "respond"
                          /\ req'[w].outcome = "only_available"
                          /\ ~req'[w].modified
                          /\ req'[w].sess = session[req'[w].s]
          /\ (/\ Answers(w) /\ req[w].op = "add"
              /\ req[w].outcome = "only_available")
                => session' = session]_vars

\* an add-item within the stock has been refused for the units its line
\* already holds
C17_Witness ==
    \E w \in Workers :
        /\ req[w].pc = "respond" /\ req[w].op = "add"
        /\ req[w].outcome = "only_available"
        /\ LET p == req[w].data[1].id
               q == req[w].data[1].quantity
           IN /\ p \in Products
              /\ q >= 1 /\ q <= products[p].stock
              /\ LinesOf(session[req[w].s].cart, p) # {}

\* the entry is one update_cart looks up: it has both keys and a quantity
\* above zero
LookedUp(item) == item # Malformed /\ item.quantity > 0

\* C18: an update-cart with an entry looked up that is above its product's
\* stock, or of a product not offered, is refused whatever its other entries
\* are, and its response leaves the cart and cart_count of the session store
\* as they were.
C18_UpdateAllOrNothing ==
    [][\A w \in Workers :
          /\ (Begins(w) /\ req'[w].op = "update") =>
                LET cart_data == req'[w].data
                IN (\E k \in DOMAIN cart_data :
                       /\ LookedUp(cart_data[k])
                       /\ \/ ~Available(cart_data[k].id)
                          \/ cart_data[k].quantity
                                > products[cart_data[k].id].stock)
                       => /\ req'[w].pc = "respond"
                          /\ req'[w].outcome \in {"error", "only_available"}
                          /\ ~req'[w].modified
                          /\ req'[w].sess = session[req'[w].s]
          /\ (/\ Answers(w) /\ req[w].op = "update"
              /\ req[w].outcome \in {"error", "only_available"})
                => session' = session]_vars

\* an update of a cart that holds lines has been refused at its second entry,
\* after a first entry that was valid
C18_Witness ==
    \E w \in Workers :
        /\ req[w].pc = "respond" /\ req[w].op = "update"
        /\ req[w].outcome = "only_available"
        /\ Len(req[w].data) = 2
        /\ LookedUp(req[w].data[1])
        /\ Available(req[w].data[1].id)
        /\ req[w].data[1].quantity <= products[req[w].data[1].id].stock
        /\ session[req[w].s].cart # <<>>

\* C19: an update-cart whose entries looked up are all of offered products
\* and within stock succeeds whatever entries of quantity zero or less it
\* carries: the cart stored has one line per entry looked up, in order, with
\* the entry's id and quantity, and none for the other entries.
C19_ZeroQuantityDropped ==
    [][\A w \in Workers :
          /\ (Begins(w) /\ req'[w].op = "update") =>
                LET cart_data == req'[w].data
                    kept == SelectSeq(cart_data, LookedUp)
                    new == req'[w].sess.cart
                IN (\A k \in DOMAIN kept :
                       /\ Available(kept[k].id)
                       /\ kept[k].quantity <= products[kept[k].id].stock)
                       => /\ req'[w].outcome = "ok"
                          /\ req'[w].modified
                          /\ Len(new) = Len(kept)
                          /\ \A k \in DOMAIN kept :
                                /\ new[k].id = kept[k].id
                                /\ new[k].quantity = kept[k].quantity
          /\ (Answers(w) /\ req[w].op = "update" /\ req[w].outcome = "ok")
                => session'[req[w].s] = req[w].sess]_vars

\* an update with an entry of quantity 0 and a valid entry has stored the one
\* line of the valid entry
C19_Witness ==
    \E w \in Workers :
        /\ req[w].pc = "respond" /\ req[w].op = "update"
        /\ req[w].outcome = "ok"
        /\ Len(req[w].data) = 2
        /\ \E j \in 1 .. 2, k \in 1 .. 2 :
              /\ req[w].data[j] = Entry(NumProducts, 0)
              /\ LookedUp(req[w].data[k])
              /\ Len(req[w].sess.cart) = 1
              /\ req[w].sess.cart[1].id = req[w].data[k].id

\* C20: the cart a cart view, a checkout that passes pre-flight, an add-item
\* or an update-cart stores carries, in every line, the price and the name of
\* the current Product row.
C20_CurrentPriceAndName ==
    [][\A w \in Workers :
          (/\ Begins(w) /\ req'[w].modified
           /\ req'[w].op \in {"cart", "checkout", "add", "update"})
              => \A k \in DOMAIN req'[w].sess.cart :
                    LET line == req'[w].sess.cart[k]
                    IN Available(line.id)
                         => /\ FloatOf(line.price) = products[line.id].price
                            /\ line.name = products[line.id].name]_vars

\* C21: an update-cart whose payload holds an entry without id or without
\* quantity is refused, and the session cart is not replaced by the rest of
\* the payload.
C21_MalformedRejected ==
    [][\A w \in Workers :
          (/\ Begins(w) /\ req'[w].op = "update"
           /\ \E k \in DOMAIN req'[w].data : req'[w].data[k] = Malformed)
              => /\ req'[w].outcome # "ok"
                 /\ ~req'[w].modified]_vars

\* C22: an add-item or update-cart naming a product not offered adds no line
\* of it, and no step of the cart and checkout flow, the stock decrement of
\* the commit included, reads or writes a product row that is inactive at
\* that moment.
C22_InactiveNeverTouched ==
    [][\A w \in Workers :
          /\ (Begins(w) /\ req'[w].op \in {"add", "update"}
                /\ req'[w].modified)
                => \A k \in DOMAIN req'[w].data :
                      (/\ LookedUp(req'[w].data[k])
                       /\ req'[w].data[k].id # 0)
                          => Available(req'[w].data[k].id)
          /\ (req[w].pc = "read_product" /\ req'[w].pc = "save_product")
                => products[req[w].validated[req[w].i].id].is_active
          /\ (req[w].pc = "save_product"
                /\ req'[w].pc \in {"read_product", "notify"})
                => products[req[w].validated[req[w].i].id].is_active]_vars

\* the request changes the cart by add-item, update-cart or remove-item
Mutates(r) == r.op \in {"add", "update", "remove"} /\ r.modified

\* C24: when the response of a cart mutation goes out, the session store
\* holds for its session exactly the cart and the cart_count that request
\* computed, whatever another request on the same session stored in between:
\* the last response wins whole, with cart_count the sum of its cart.
C24_LastWriteWins ==
    [][\A w \in Workers :
          (Answers(w) /\ Mutates(req[w]))
              => /\ session'[req[w].s].cart = req[w].sess.cart
                 /\ session'[req[w].s].cart_count = SumQty(req[w].sess.cart)
                 /\ \A s \in Sessions :
                       s # req[w].s => session'[s] = session[s]]_vars

\* two mutations of one session have both read the cart before either has
\* written, and have computed different carts
C24_Witness ==
    \E w1 \in Workers, w2 \in Workers :
        /\ w1 # w2
        /\ req[w1].pc = "respond" /\ req[w2].pc = "respond"
        /\ Mutates(req[w1]) /\ Mutates(req[w2])
        /\ req[w1].s = req[w2].s
        /\ req[w1].sess.cart # req[w2].sess.cart
        /\ req[w1].sess.cart # <<>> /\ req[w2].sess.cart # <<>>

\* units of product p over the items of all the orders
RECURSIVE Ordered(_, _)
Ordered(o, p) ==
    IF o = 0 THEN 0
    ELSE QtyOf(GetItems(orders[o].items), p) + Ordered(o - 1, p)

\* C27: as long as staff have set no product's stock, whenever no request is
\* in flight the stock of every product is its opening stock less the units
\* of it in all the persisted orders.
C27_StockConservation ==
    (restocked = {} /\ \A w \in Workers : req[w].pc = "idle")
        => \A p \in Products :
              InitialStock(p) - products[p].stock = Ordered(Len(orders), p)

\* C28: a checkout that validates its cart but is not a POST of a valid form
\* inserts no order, writes no stock, sends no mail, and its response stores
\* the cart it read with the same lines, names and quantities, the prices
\* those of the Product rows, and the cart_count as it was; nothing else
\* changes.
C28_FormOnly ==
    [][\A w \in Workers :
          /\ (Begins(w) /\ req'[w].op = "checkout" /\ req'[w].pc = "respond")
                => LET old == session[req'[w].s]
                       new == req'[w].sess
                   IN /\ orders' = orders /\ products' = products
                      /\ req'[w].order = 0
                      /\ req'[w].admin_mail = "none"
                      /\ req'[w].customer_mail = "none"
                      /\ new.cart_count = old.cart_count
                      /\ Len(new.cart) = Len(old.cart)
                      /\ req'[w].outcome = "form"
                            => \A k \in DOMAIN old.cart :
                                  new.cart[k] =
                                    [old.cart[k] EXCEPT !.price =
                                       PriceStr(products[old.cart[k].id].price)]
          /\ (Answers(w) /\ req[w].op = "checkout" /\ req[w].order = 0)
                => /\ orders' = orders /\ products' = products
                   /\ \A s \in Sessions :
                         s # req[w].s => session'[s] = session[s]
                   /\ req[w].outcome = "form"
                         => session'[req[w].s] = req[w].sess
                   /\ req[w].outcome # "form" => session' = session]_vars

\* a checkout has rendered its form for a cart whose line it gave a new price
C28_Witness ==
    \E w \in Workers :
        /\ req[w].pc = "respond" /\ req[w].op = "checkout"
        /\ req[w].outcome = "form"
        /\ req[w].sess.cart # <<>>
        /\ req[w].sess.cart # session[req[w].s].cart
        /\ orders = <<>>

\* C29: a remove-item with a product id stores the cart without the lines of
\* that id, the other lines as they were and in order, whether or not the
\* product is offered or in stock; a cart without such a line is stored as it
\* is, so a second removal changes nothing.
C29_RemoveExact ==
    [][\A w \in Workers :
          (Begins(w) /\ req'[w].op = "remove" /\ req'[w].data[1].id # 0)
              => LET old == session[req'[w].s].cart
                     new == req'[w].sess.cart
                     p == req'[w].data[1].id
                 IN /\ req'[w].outcome = "ok"
                    /\ req'[w].modified
                    /\ new = SelectSeq(old, LAMBDA line : line.id # p)
                    /\ LinesOf(new, p) = {}
                    /\ LinesOf(old, p) = {} => new = old
                    /\ req'[w].sess.cart_count = SumQty(new)
                    /\ products' = products]_vars

\* a remove-item has taken one line out of a cart of two lines and kept the
\* line of the other product
C29_Witness ==
    \E w \in Workers :
        /\ req[w].pc = "respond" /\ req[w].op = "remove"
        /\ Len(session[req[w].s].cart) = 2
        /\ Len(req[w].sess.cart) = 1
        /\ req[w].sess.cart[1].id # req[w].data[1].id

Rank(status) ==
    CASE status = "pending" -> 1
      [] status = "confirmed" -> 2
      [] status = "processing" -> 3
      [] status = "shipped" -> 4
      [] status = "delivered" -> 5
      [] OTHER -> 0

\* a change of status the state machine permits
Permitted(from, to) ==
    \/ to = from
    \/ Rank(from) > 0 /\ Rank(to) > Rank(from)
    \/ to = "cancelled" /\ from \in {"pending", "confirmed"}

\* C23: the status of an order only moves forward along pending ->
\* confirmed -> processing -> shipped -> delivered, or to cancelled from
\* pending or confirmed: no staff action moves an order backward or cancels
\* an order that is processing, shipped or delivered.
C23_StatusForwardOnly ==
    [][\A o \in DOMAIN orders :
          o \in DOMAIN orders'
          => Permitted(orders[o].status, orders'[o].status)]_vars

\* the last staff operation is a save of a review that is approved
SavedApproved ==
    /\ last.op = "save"
    /\ last.at = nops
    /\ reviews[last.review].is_approved

\* C25: whenever a review with is_approved true is saved, the review_count of
\* its product is the number of approved reviews of that product, and the
\* rating is the mean of their ratings rounded to one decimal (the rating, in
\* tenths, is no further than half a tenth from the mean).
C25_ApprovedSaveRecomputes ==
    SavedApproved
    => LET p == reviews[last.review].product
           approved == Approved(reviews, p, 1)
           tenths == ratings[p].rating * approved.count - 10 * approved.sum
       IN /\ ratings[p].review_count = approved.count
          /\ 2 * tenths <= approved.count
          /\ -2 * tenths <= approved.count

\* an approved review has been saved for a product that has two approved
\* reviews or more, whose mean is not a whole number of tenths
C25_Witness ==
    /\ SavedApproved
    /\ LET approved == Approved(reviews, reviews[last.review].product, 1)
       IN approved.count >= 2 /\ (10 * approved.sum) % approved.count # 0

\* the step is a save of a review that is not approved, or the list action
\* that disapproves reviews
SavesUnapproved ==
    /\ last'.at # last.at
    /\ \/ last'.op = "save" /\ ~reviews'[last'.review].is_approved
       \/ last'.op = "disapprove"

\* C26: saving a review with is_approved false, disapproving a review that
\* was approved included, leaves the rating and the review_count of every
\* product unchanged; the values change only at a save of an approved review.
C26_UnapprovedSaveLeavesRating ==
    [][/\ SavesUnapproved => ratings' = ratings
       /\ ratings' # ratings
          => /\ last'.at # last.at
             /\ last'.op = "save"
             /\ reviews'[last'.review].is_approved]_vars

\* a review that was approved has just been saved as not approved, and the
\* review_count of its product still counts it
C26_Witness ==
    /\ last.op = "save"
    /\ last.at = nops
    /\ ~reviews[last.review].is_approved
    /\ LET p == reviews[last.review].product
       IN ratings[p].review_count > Approved(reviews, p, 1).count

====
